---- MODULE Spec2Model ----
(***************************************************************************)
(* A model of gdb_trace's Replayer (converter.py: class Converter) driving *)
(* the debugger through a trace log, together with the pure helpers of     *)
(* position.py it uses.  The host debugger is an external program: each    *)
(* command the Replayer issues is answered by a nondeterministic choice    *)
(* over the results run_gdb_cmd can classify.                              *)
(*                                                                         *)
(* Granularity: one action per debugger command.  An action starts where   *)
(* the code calls run_gdb_cmd and runs the code up to the next call of     *)
(* run_gdb_cmd (or to the return of process_one, or to an uncaught         *)
(* exception).                                                             *)
(*                                                                         *)
(* The module also models the Tracer (tracer.py: class Tracer) with the    *)
(* same granularity, the loop detector detect_loop on windows it is given, *)
(* and gdb_execute_timeout (gdb_utils.py) running beside its delay_signal  *)
(* process.  Each has its own specification: Spec is the Replayer,         *)
(* TracerSpec the Tracer, DetectSpec the loop detector, TimeoutSpec        *)
(* gdb_execute_timeout.                                                    *)
(***************************************************************************)
EXTENDS Integers, Sequences, FiniteSets, Bags, TLC

(***************************************************************************)
(* Bounds of the model.                                                    *)
(***************************************************************************)
NumFiles == 2      \* source file names that occur in trace lines and frames
MaxLine == 2       \* line numbers that occur in trace lines and frames
MaxThreads == 2    \* threads the inferior ever has
MaxLog == 2        \* lines of the trace log
MaxOut == 3        \* PC lines one record may append before its loops must end
MaxDepth == 2      \* frames of a stopped thread's stack

(***************************************************************************)
(* Values.  Python's None is the record None; a FileLine is a record       *)
(* (position.py:19-23); a file name is absolute or relative to srcdir.     *)
(***************************************************************************)
None == [none |-> TRUE]

AbsName(n) == [abs |-> TRUE, name |-> n]
RelName(n) == [abs |-> FALSE, name |-> n]

FileLine(filename, line, address) ==
    [filename |-> filename, line |-> line, address |-> address]

\* position.py:25-28  FileLine.__eq__ (and None == None, None != FileLine)
FileLine_eq(a, b) ==
    IF a = None \/ b = None
    THEN a = b
    ELSE a.filename = b.filename /\ a.line = b.line

\* string order of two file names: an absolute path ("/...") sorts before a
\* relative one, two names of the same kind by their name
filename_lt(f, g) ==
    IF f.abs # g.abs THEN f.abs ELSE f.name < g.name

\* position.py:30-33  FileLine.__lt__
FileLine_lt(a, b) ==
    IF a.filename # b.filename
    THEN filename_lt(a.filename, b.filename)
    ELSE a.line < b.line

\* position.py:13-16  path_rel_to(path, srcdir): the name below srcdir
path_rel_to(filename) == RelName(filename.name)

\* position.py:38-39  FileLine.relative_to
relative_to(fl) == FileLine(path_rel_to(fl.filename), fl.line, fl.address)

\* converter.py:135-136  os.path.abspath(os.path.join(srcdir, filename)):
\* join keeps an absolute second argument and prefixes srcdir otherwise
abspath_join(filename) == AbsName(filename.name)

(***************************************************************************)
(* The program's inputs that are fixed at start.                           *)
(***************************************************************************)
\* converter.py:82  the executable's load address
base_addr == 100

\* converter.py:79  load_line_table(srcdir): sorted, no duplicates, absolute
\* file names, the address of each line's first instruction
positions ==
    << FileLine(AbsName(1), 2, 110),
       FileLine(AbsName(2), 1, 120) >>

\* the pc of a thread stopped outside every line of the table
outside_pc == 190

(***************************************************************************)
(* position.py: LineLoc, ThreadPos, the log parser.                        *)
(***************************************************************************)
Before == "Before"
Middle == "Middle"
After == "After"

\* position.py:45-48  LineLoc(value)
LineLoc(tag) ==
    CASE tag = "=" -> Before
      [] tag = ">" -> Middle
      [] tag = "-" -> After

ThreadPos(tid, line_loc, file_line) ==
    [tid |-> tid, line_loc |-> line_loc, file_line |-> file_line]

\* A line of the trace log as text: "<tid> <tag> <loc>", loc being None or
\* a (relative file name, line) pair.
Tags == {"=", ">", "-"}
LogKeys == { FileLine(RelName(n), l, 0) : n \in 1..NumFiles, l \in 1..MaxLine }
RawLines == [tid : 1..MaxThreads, tag : Tags, loc : LogKeys \cup {None}]

\* position.py:140  log_pattern: the tag must be one of "=" and ">"
log_pattern_match(line) == line.tag \in {"=", ">"}

\* position.py:153-165  parse_log_line
parse_log_line(line) ==
    IF ~log_pattern_match(line)
    THEN None
    ELSE ThreadPos(line.tid, LineLoc(line.tag), line.loc)

(***************************************************************************)
(* bisect and the two look-ups into the line table.                        *)
(***************************************************************************)
\* bisect.bisect_left(a, x) on a sorted list, as a 1-based index
bisect_left(a, x) ==
    1 + Cardinality({ i \in 1..Len(a) : FileLine_lt(a[i], x) })

\* converter.py:132-142  Converter.break_position
break_position(file_line) ==
    IF file_line = None
    THEN None
    ELSE LET x == FileLine(abspath_join(file_line.filename), file_line.line, 0)
             i == bisect_left(positions, x)
         IN IF i = Len(positions) + 1
            THEN None
            ELSE relative_to(positions[i])

\* position.py:109-122  lookup_file_line: a frame is the (absolute file,
\* line) its sal names, or None (no valid sal, no symtab)
lookup_file_line(frame) ==
    IF frame = None
    THEN None
    ELSE LET i == bisect_left(positions, frame)
         IN IF i < Len(positions) + 1 /\ FileLine_eq(positions[i], frame)
            THEN positions[i]
            ELSE None

Frames == { FileLine(AbsName(n), l, 0) : n \in 1..NumFiles, l \in 1..MaxLine }
              \cup {None}

RECURSIVE walk_frames(_, _)
\* position.py:133-137  the loop of thread_position from frame number k on:
\* <<ans, level>>
walk_frames(stack, k) ==
    LET ans == lookup_file_line(stack[k])
    IN IF ans # None \/ k = Len(stack)
       THEN <<ans, k - 1>>
       ELSE walk_frames(stack, k + 1)

\* position.py:103-106  Position.at_line_begin
at_line_begin(pos) ==
    IF pos.file_line = None THEN FALSE ELSE pos.pc = pos.file_line.address

\* position.py:125-137  thread_position of a valid stopped thread whose
\* stack (newest frame first) is `stack` and whose pc is `pc`
thread_position(stack, pc) ==
    LET w == walk_frames(stack, 1)
    IN [file_line |-> w[1], pc |-> pc, level |-> w[2]]

(***************************************************************************)
(* What the debugger reports of a stopped thread: its stack, newest frame  *)
(* first, and its pc.  The pc is the first instruction of the newest       *)
(* frame's line, an instruction inside that line, or an address outside    *)
(* the table.                                                              *)
(***************************************************************************)
Stacks == UNION { [1..d -> Frames] : d \in 1..MaxDepth }

PcOf(stack) ==
    LET w == walk_frames(stack, 1)
    IN IF w[1] # None /\ w[2] = 0
       THEN {w[1].address, w[1].address + 1}
       ELSE {outside_pc}

Landings == UNION { { [stack |-> s, pc |-> p] : p \in PcOf(s) } : s \in Stacks }

\* every Position, with its level, that thread_position can return for a
\* valid thread
Stops == { thread_position(l.stack, l.pc) : l \in Landings }

(***************************************************************************)
(* converter.py: ThreadInfo.                                               *)
(***************************************************************************)
\* converter.py:24-27  ThreadInfo.__init__
ThreadInfo(current, last_finished) ==
    [current |-> current, last_finished |-> last_finished, last_target |-> None]

\* converter.py:41-47  ThreadInfo.move_to
move_to(info, new_tpos, last) ==
    [info EXCEPT !.last_finished = IF last THEN info.current.file_line ELSE None,
                 !.current = new_tpos]

\* converter.py:49-50  ThreadInfo.into_middle
into_middle(info) == [info EXCEPT !.current.line_loc = Middle]

\* converter.py:98-104  add_new_thread, for the new thread with the number
\* tid = len(self.threads) whose thread_position is pos
add_new_thread(tid, pos) ==
    LET line_loc == IF at_line_begin(pos) THEN Before ELSE Middle
        file_line == IF pos.file_line = None THEN None ELSE relative_to(pos.file_line)
    IN ThreadInfo(ThreadPos(tid, line_loc, file_line), None)

\* converter.py:195-201  append_answer: the line written for thread tid;
\* addr is {} for None and {pc} for an address
append_answer(tid, addr) ==
    [tid |-> tid,
     addr |-> IF addr = {} THEN 0 ELSE (CHOOSE a \in addr : TRUE) - base_addr]

(***************************************************************************)
(* State.                                                                  *)
(***************************************************************************)
VARIABLES
    threads,    \* Converter.threads[1..]: the ThreadInfo of each thread
    cur_info,   \* Converter.cur_info, as a thread number; 0 for None
    out_file,   \* the PC log: the number of lines appended since process_one
                \* was entered, and the last line of the file
    valid,      \* debugger: the numbers of the inferior's valid threads
    selected,   \* debugger: the selected thread; 0 when there is none
    bps,        \* debugger: the locations of run_until's valid breakpoints
    pc,         \* the run_gdb_cmd call the program is at, or idle/done/error
    cont,       \* what process_one does once the running primitive returns
    line,       \* the text of the trace line process_one was last called for
    nread,      \* the number of trace lines read
    ndropped,   \* the number of those that read_log dropped
    calls,      \* the primitives process_one has invoked for the current record
    ncmd,       \* the commands given to the debugger for the current record
    last,       \* the latest run_gdb_cmd of the current record and its result
    pre,        \* what process_one found when it was entered
    \* the Tracer (tracer.py)
    tracer,     \* the Tracer object: threads, new_thread, new_tids, pos_count,
                \* blacklist, last_thread_info
    log,        \* the trace log: the records written, the latest last
    reported,   \* debugger: the threads it has ever reported
    local,      \* the locals of Tracer.step and try_step at a debugger command
    steps,      \* the calls of Tracer.step that have returned
    hist,       \* what the run has done: the lines add_blacklist recorded and
                \* for which thread, and the latest command and its result
    \* gdb_execute_timeout (gdb_utils.py)
    proc,       \* the delay_signal process
    sigint,     \* the SIGINT of the delay_signal process
    gdb_cmd,    \* the command given to gdb_execute
    result      \* how gdb_execute_timeout ended

\* the variables only the Replayer, only the Tracer, only gdb_execute_timeout
\* uses; valid, selected and pc are used by the Replayer and the Tracer
replayer_vars == << threads, cur_info, out_file, bps, cont, line, nread,
                    ndropped, calls, ncmd, last, pre >>
tracer_vars == << tracer, log, reported, local, steps, hist >>
timeout_vars == << proc, sigint, gdb_cmd, result >>

vars == << valid, selected, pc, replayer_vars, tracer_vars, timeout_vars >>

\* the record process_one was called with (converter.py:16, 321)
tpos == IF line = None THEN None ELSE parse_log_line(line)

\* the PC log with nothing written for the current record
NoLine == [tid |-> 0, addr |-> 0]
Unwritten(f) == [n |-> 0, last |-> f.last]

\* out_file.write of the lines `out`, in order
write(f, out) ==
    IF out = <<>> THEN f ELSE [n |-> f.n + Len(out), last |-> out[Len(out)]]

\* the Tracer, and gdb_execute_timeout, are not part of this run
TracerOff ==
    /\ tracer = None /\ log = None /\ reported = {}
    /\ local = None /\ steps = 0 /\ hist = None

TimeoutOff ==
    proc = None /\ sigint = None /\ gdb_cmd = None /\ result = None

NoCmd == [prim |-> "none", r |-> "none", issued |-> FALSE, pos |-> None,
          stepi |-> 0]
NoPre == [line_loc |-> "none", live |-> FALSE, switched |-> FALSE]

(***************************************************************************)
(* The debugger's answer to one run_gdb_cmd (converter.py:204-223).        *)
(*   r       the RunResult run_gdb_cmd returns, or "NoNewThread" when      *)
(*           add_new_thread (line 218) raises and nothing is returned      *)
(*   issued  whether the command was given to the debugger                 *)
(*   land    Success: the thread_position of the stopped thread            *)
(*   born    Clone: the thread_position of the new thread                  *)
(*   gone    Exit: the threads that are no longer valid                    *)
(*   sel     Exit: the thread the debugger selects afterwards, 0 for none  *)
(***************************************************************************)
Answer(r, issued, land, born, gone, sel) ==
    [r |-> r, issued |-> issued, land |-> land, born |-> born,
     gone |-> gone, sel |-> sel]

\* gdb_utils.py:69-70  gdb_live
gdb_live == valid # {}

\* gdb_switch_thread(tid): the thread is selected when it is a valid thread
\* of the inferior
gdb_switch_thread(tid) == tid \in valid

GdbAnswers ==
    IF selected \notin valid
    THEN \* converter.py:205-207: no command is given
         { Answer("Exit", FALSE, None, None, {}, selected) }
    ELSE { Answer("Timeout", TRUE, None, None, {}, selected),
           Answer("Error", TRUE, None, None, {}, selected),
           Answer("NoNewThread", TRUE, None, None, {}, selected) }
         \cup { Answer("Clone", TRUE, None, b, {}, selected) :
                  b \in IF Len(threads) < MaxThreads THEN Stops ELSE {} }
         \cup UNION { { Answer("Exit", TRUE, None, None, g, s) :
                          s \in (valid \ g) \cup {0} } :
                      g \in { {selected}, valid } }
         \cup { Answer("Success", TRUE, l, None, {}, selected) : l \in Stops }

\* converter.py:216-217  the `stepi` commands run_gdb_cmd gives: one when
\* the command has stopped inside clone
stepi_count(a) == IF a.r \in {"Clone", "NoNewThread"} THEN 1 ELSE 0

\* converter.py:216-220, changed: run_gdb_cmd inside clone returns Clone
\* without add_new_thread
threads_after_unregistered(a) == threads

\* converter.py:216-220  run_gdb_cmd inside clone: add_new_thread appends
\* the new thread's ThreadInfo
threads_after(a) ==
    IF a.r = "Clone"
    THEN Append(threads, add_new_thread(Len(threads) + 1, a.born))
    ELSE threads

valid_after(a) ==
    IF a.r = "Clone"
    THEN valid \cup {Len(threads) + 1}
    ELSE valid \ a.gone

\* converter.py:246, 273, 288  thread_position(gdb.selected_thread(), ...)
\* after a Success
landing(a) == a.land

(***************************************************************************)
(* The primitives of the Replayer.  Each operator is the code that handles *)
(* one result of run_gdb_cmd: th is Converter.threads after run_gdb_cmd,   *)
(* i the number of cur_info, a the debugger's answer.  It yields the new   *)
(* threads, the lines appended to the PC log, and how control goes on:     *)
(* "loop" (the next iteration calls run_gdb_cmd again), "return", "raise". *)
(***************************************************************************)
Outcome(th, out, status) == [threads |-> th, out |-> out, status |-> status]

\* the exception of run_gdb_cmd passes through the primitive
Raised(th) == Outcome(th, <<>>, "raise")

\* converter.py:241-242, 261, 270-271  the thread is gone: one 0x0 line,
\* and the thread moves to (Middle, None)
gone_to_middle(th, i) ==
    Outcome([th EXCEPT ![i] = move_to(th[i], ThreadPos(i, Middle, None), FALSE)],
            <<append_answer(i, {})>>, "return")

\* converter.py:247-248, 276-277, 291-292  the thread moves to the line it
\* stopped at, as Before; the line written before is `out`
move_to_stop(th, i, p, out) ==
    IF p.file_line = None
    THEN \* None has no relative_to
         Outcome(th, out, "raise")
    ELSE Outcome([th EXCEPT ![i] =
                     move_to(th[i], ThreadPos(i, Before, relative_to(p.file_line)), TRUE)],
                 out, "return")

\* a variant of run_until_timeout: the Timeout is handled like a Clone
run_until_timeout_as_clone(th, i) ==
    Outcome(th, <<append_answer(i, {})>>, "loop")

\* converter.py:238-239  run_until: Timeout
run_until_timeout(th, i) == Outcome(th, <<>>, "raise")

\* converter.py:234-249  one iteration of run_until's loop
run_until(th, i, a) ==
    CASE a.r = "Clone" ->
           Outcome(th, <<append_answer(i, {})>>, "loop")
      [] a.r = "Timeout" ->
           run_until_timeout(th, i)
      [] a.r \in {"Exit", "Error"} ->
           gone_to_middle(th, i)
      [] a.r = "Success" ->
           move_to_stop(th, i, landing(a), <<append_answer(i, {landing(a).pc})>>)
      [] OTHER -> Raised(th)

\* converter.py:256-261  one iteration of run_until_exit's loop
run_until_exit(th, i, a) ==
    CASE a.r \in {"Exit", "Error"} ->
           gone_to_middle(th, i)
      [] a.r \in {"Clone", "Timeout", "Success"} ->
           Outcome(th, <<append_answer(i, {})>>, "loop")
      [] OTHER -> Raised(th)

\* a variant of run_next_timeout: the 0x0 line is not written
run_next_timeout_silent(th, i) ==
    Outcome([th EXCEPT ![i] = into_middle(th[i])], <<>>, "return")

\* converter.py:266-268  run_next: Clone or Timeout
run_next_timeout(th, i) ==
    Outcome([th EXCEPT ![i] = into_middle(th[i])],
            <<append_answer(i, {})>>, "return")

\* converter.py:265-277  run_next
run_next(th, i, a) ==
    CASE a.r \in {"Clone", "Timeout"} ->
           run_next_timeout(th, i)
      [] a.r \in {"Exit", "Error"} ->
           gone_to_middle(th, i)
      [] a.r = "Success" ->
           IF landing(a).level # 0
           THEN \* line 274: assert level == 0
                Raised(th)
           ELSE move_to_stop(th, i, landing(a), <<append_answer(i, {landing(a).pc})>>)
      [] OTHER -> Raised(th)

\* a variant of run_finish_timeout: the Timeout is handled like an Error
run_finish_timeout_as_error(th, i) ==
    Outcome(th, <<append_answer(i, {})>>, "return")

\* converter.py:285-286  run_finish: Timeout
run_finish_timeout(th, i) == Outcome(th, <<>>, "return")

\* converter.py:281-292  run_finish
run_finish(th, i, a) ==
    IF a.r = "NoNewThread"
    THEN Raised(th)
    ELSE IF th[i].current.line_loc # Middle
    THEN \* line 282: assert info.line_loc == LineLoc.Middle
         Raised(th)
    ELSE CASE a.r \in {"Clone", "Exit", "Error"} ->
                Outcome(th, <<append_answer(i, {})>>, "return")
           [] a.r = "Timeout" ->
                run_finish_timeout(th, i)
           [] a.r = "Success" ->
                IF landing(a).level # 0
                THEN Outcome(th, <<>>, "return")
                ELSE move_to_stop(th, i, landing(a), <<append_answer(i, {landing(a).pc})>>)

(***************************************************************************)
(* process_one (converter.py:144-193).                                     *)
(***************************************************************************)
Call(call, k) == [call |-> call, cont |-> k]

\* a variant of forward_in_file: the same line counts as earlier
forward_in_file_or_same(last_target, file_line) ==
    /\ last_target # None
    /\ file_line # None
    /\ last_target.filename = file_line.filename
    /\ last_target.line <= file_line.line

\* converter.py:170-172  the previous target is an earlier line of the file
forward_in_file(last_target, file_line) ==
    /\ last_target # None
    /\ file_line # None
    /\ last_target.filename = file_line.filename
    /\ last_target.line < file_line.line

\* a variant of already_finished: the current line in place of the last
\* finished one
already_at_target(t, info) == FileLine_eq(t.file_line, info.current.file_line)

\* converter.py:176  the record's line is the one the thread last finished
already_finished(t, info) == FileLine_eq(t.file_line, info.last_finished)

\* a variant of switch_failure_skipped: only the record's file_line counts
switch_failure_skipped_for_none_record(t, info) == t.file_line = None

\* converter.py:156  after a failed switch the record is skipped when its
\* file_line or the thread's stored file_line is None
switch_failure_skipped(t, info) ==
    t.file_line = None \/ info.current.file_line = None

\* converter.py:163-193  the primitive process_one invokes first for the
\* record t of a thread whose ThreadInfo is info, and what it does when
\* that primitive has returned:
\*   "ret"   return
\*   "next"  line 296: run_next unless the record's file_line is None
\*   "l175"  go on at line 175 (line 174 is not followed by a return)
process_one_call(info, t) ==
    LET cur_match == FileLine_eq(break_position(t.file_line), info.current.file_line)
        last_target == info.last_target
    IN IF info.current.line_loc = Before
       THEN IF t.line_loc = Before
            THEN IF cur_match /\ forward_in_file(last_target, t.file_line)
                 THEN Call("return", "ret")
                 ELSE Call("run_until", "l175")
            ELSE IF already_finished(t, info)
                 THEN Call("return", "ret")
                 ELSE IF cur_match
                      THEN Call("run_next", "ret")
                      ELSE Call("run_until", "next")   \* run_until_and_next
       ELSE IF t.line_loc = Before
            THEN Call("run_until", "ret")
            ELSE IF cur_match
                 THEN Call("run_finish", "ret")
                 ELSE Call("run_until", "next")        \* run_until_and_next

\* what process_one does when a primitive has returned with continuation k
\* and the threads are th
after_return(th, k) ==
    CASE k = "ret" -> Call("return", "ret")
      [] k = "next" ->   \* converter.py:296-297
           IF tpos.file_line # None
           THEN Call("run_next", "ret")
           ELSE Call("return", "ret")
      [] k = "l175" ->   \* converter.py:175-187, the record is at Before
           IF th[cur_info].current.line_loc = Middle
           THEN Call("run_until", "ret")
           ELSE Call("return", "ret")

\* the run_gdb_cmd call at which primitive `call` for file_line fl waits
\* (converter.py:226-228: run_until(None) is run_until_exit)
entry_pc(call, fl) ==
    CASE call = "return" -> "idle"
      [] call = "run_until" -> IF fl = None THEN "run_until_exit" ELSE "run_until"
      [] call = "run_next" -> "run_next"
      [] call = "run_finish" -> "run_finish"

\* converter.py:231  the breakpoint run_until sets on entry
entry_bp(call, fl) ==
    IF call = "run_until" /\ fl # None THEN {fl} ELSE {}

(***************************************************************************)
(* Actions.                                                                *)
(***************************************************************************)
\* converter.py:62-89, 319  Converter.start: thread 1 is registered at the
\* place the inferior was started at
Init ==
    /\ threads \in { <<add_new_thread(1, p)>> : p \in Stops }
    /\ cur_info = 0
    /\ out_file = [n |-> 0, last |-> NoLine]
    /\ valid = {1}
    /\ selected = 1
    /\ bps = {}
    /\ pc = "idle"
    /\ cont = "ret"
    /\ line = None
    /\ nread = 0
    /\ ndropped = 0
    /\ calls = <<>>
    /\ ncmd = 0
    /\ last = NoCmd
    /\ pre = NoPre
    /\ TracerOff
    /\ TimeoutOff

\* converter.py:14-18  read_log drops a line parse_log_line does not accept.
\* (read_log reads the whole file before the first process_one; the lines
\* are arbitrary, so each is drawn when the loop of main comes to it.)
read_log_drop ==
    /\ UNCHANGED << tracer_vars, timeout_vars >>
    /\ pc = "idle"
    /\ nread < MaxLog
    /\ \E raw \in RawLines :
         /\ parse_log_line(raw) = None
         /\ nread' = nread + 1
         /\ ndropped' = ndropped + 1
    /\ UNCHANGED << threads, cur_info, out_file, valid, selected, bps, pc,
                    cont, line, calls, ncmd, last, pre >>

\* process_one leaves without calling a primitive
Leave(to) ==
    /\ pc' = to
    /\ cont' = "ret"
    /\ calls' = <<>>
    /\ UNCHANGED << threads, bps >>

\* converter.py:144-193, 320-321  main takes the next record and calls
\* process_one, which runs up to its first run_gdb_cmd
process_one ==
    /\ UNCHANGED << tracer_vars, timeout_vars >>
    /\ pc = "idle"
    /\ nread < MaxLog
    /\ \E raw \in RawLines :
         /\ parse_log_line(raw) # None
         /\ LET t == parse_log_line(raw)
            IN /\ line' = raw
               /\ nread' = nread + 1
               /\ out_file' = Unwritten(out_file)
               /\ ncmd' = 0
               /\ last' = NoCmd
               /\ UNCHANGED << valid, ndropped >>
               /\ IF t.tid > Len(threads)
                  THEN \* line 146: IndexError
                       /\ Leave("error")
                       /\ pre' = NoPre
                       /\ UNCHANGED << cur_info, selected >>
                  ELSE LET info == threads[t.tid]
                           switched == gdb_live /\ gdb_switch_thread(t.tid)
                           c == process_one_call(info, t)
                       IN /\ cur_info' = t.tid
                          /\ pre' = [line_loc |-> info.current.line_loc, live |-> gdb_live,
                                   switched |-> switched]
                          /\ selected' = IF switched THEN t.tid ELSE selected
                          /\ IF ~gdb_live
                             THEN Leave("idle")                  \* lines 152-153
                             ELSE IF ~switched
                             THEN IF switch_failure_skipped(t, info)
                                  THEN Leave("idle")             \* lines 156-157
                                  ELSE Leave("error")            \* line 158
                             ELSE IF t.line_loc = After \/ info.current.line_loc = After
                             THEN Leave("error")                 \* lines 160-161
                             ELSE /\ threads' = [threads EXCEPT ![t.tid].last_target = t.file_line]
                                  /\ pc' = entry_pc(c.call, t.file_line)
                                  /\ cont' = c.cont
                                  /\ calls' = IF c.call = "return" THEN <<>> ELSE <<c.call>>
                                  /\ bps' = bps \cup entry_bp(c.call, t.file_line)

\* The program at a run_gdb_cmd call of primitive prim: the debugger answers
\* a, the primitive's code for that answer yields o, and the program runs on
\* to its next run_gdb_cmd.
Handle(prim, a, o) ==
    LET nxt == after_return(o.threads, cont)
        fl == tpos.file_line
    IN /\ threads' = o.threads
       /\ out_file' = write(out_file, o.out)
       /\ valid' = valid_after(a)
       /\ selected' = a.sel
       /\ ncmd' = IF a.issued THEN ncmd + 1 ELSE ncmd
       /\ last' = [prim |-> prim, r |-> a.r, issued |-> a.issued,
                   pos |-> IF a.r = "Success" THEN landing(a) ELSE None,
                   stepi |-> stepi_count(a)]
       /\ UNCHANGED << cur_info, line, nread, ndropped, pre >>
       /\ IF o.status = "raise"
          THEN pc' = "error" /\ UNCHANGED << cont, calls, bps >>
          ELSE IF o.status = "loop"
          THEN out_file'.n < MaxOut /\ UNCHANGED << pc, cont, calls, bps >>
          ELSE /\ pc' = entry_pc(nxt.call, fl)
               /\ cont' = nxt.cont
               /\ calls' = IF nxt.call = "return" THEN calls ELSE Append(calls, nxt.call)
               \* converter.py:251-252: run_until deletes its breakpoint
               /\ bps' = (IF prim = "run_until" THEN bps \ {fl} ELSE bps)
                            \cup entry_bp(nxt.call, fl)

\* converter.py:235  run_until at its `continue`
run_until_continue ==
    /\ UNCHANGED << tracer_vars, timeout_vars >>
    /\ pc = "run_until"
    /\ \E a \in GdbAnswers :
         Handle("run_until", a,
                run_until(threads_after(a), cur_info, a))

\* converter.py:257  run_until_exit at its `continue`
run_until_exit_continue ==
    /\ UNCHANGED << tracer_vars, timeout_vars >>
    /\ pc = "run_until_exit"
    /\ \E a \in GdbAnswers :
         Handle("run_until_exit", a,
                run_until_exit(threads_after(a), cur_info, a))

\* converter.py:265  run_next at its `next`
run_next_next ==
    /\ UNCHANGED << tracer_vars, timeout_vars >>
    /\ pc = "run_next"
    /\ \E a \in GdbAnswers :
         Handle("run_next", a,
                run_next(threads_after(a), cur_info, a))

\* converter.py:281  run_finish at its `finish`
run_finish_finish ==
    /\ UNCHANGED << tracer_vars, timeout_vars >>
    /\ pc = "run_finish"
    /\ \E a \in GdbAnswers :
         Handle("run_finish", a,
                run_finish(threads_after(a), cur_info, a))

\* converter.py:320-322  the loop of main is through: close_file
close_file ==
    /\ UNCHANGED << tracer_vars, timeout_vars >>
    /\ pc = "idle"
    /\ pc' = "done"
    \* no record is being processed any more
    /\ out_file' = Unwritten(out_file)
    /\ calls' = <<>>
    /\ ncmd' = 0
    /\ last' = NoCmd
    /\ pre' = NoPre
    /\ UNCHANGED << threads, cur_info, valid, selected, bps, cont,
                    line, nread, ndropped >>

Next ==
    \/ read_log_drop
    \/ process_one
    \/ run_until_continue
    \/ run_until_exit_continue
    \/ run_next_next
    \/ run_finish_finish
    \/ close_file

Spec == Init /\ [][Next]_vars

(***************************************************************************)
(* Properties of the Replayer.                                             *)
(***************************************************************************)
\* the program is at a run_gdb_cmd call
AtCommand == pc \in {"run_until", "run_until_exit", "run_next", "run_finish"}

\* this step is main handing a record to process_one, which finds its
\* ThreadInfo (converter.py:146)
ProcessOneStep ==
    /\ pc = "idle"
    /\ nread' = nread + 1
    /\ ndropped' = ndropped
    /\ tpos'.tid <= Len(threads)

\* the primitive process_one invokes first for the current record
FirstCall == IF calls = <<>> THEN "no-op" ELSE calls[1]

\* the line append_answer(None) writes for thread i
ZeroLine(i) == [tid |-> i, addr |-> 0]

\* this step appends exactly the line l to the PC log
Appends(l) == out_file'.n = out_file.n + 1 /\ out_file'.last = l

\* this step appends nothing to the PC log
AppendsNothing == out_file' = out_file

\* C1 (as stated): when a record has been processed, exactly one PC line
\* has been appended for it.
C1_ExactlyOneLine ==
    (pc = "idle" /\ line # None) => out_file.n = 1

\* the results of run_gdb_cmd for which the primitive writes no line
Silent(prim, l) ==
    \/ l.r = "NoNewThread"
    \/ prim = "run_until" /\ l.r = "Timeout"
    \/ prim = "run_finish" /\ l.r = "Timeout"
    \/ prim = "run_finish" /\ l.r = "Success" /\ l.pos.level # 0
    \/ prim = "run_next" /\ l.r = "Success" /\ l.pos.level # 0

\* C1 (amended): process_one itself appends nothing, and every run_gdb_cmd
\* made for a record appends at most one PC line: none for a Timeout inside
\* run_until (which raises), a Timeout of finish, a Success of finish or
\* next that lands above stack level 0, and a run_gdb_cmd that raises;
\* exactly one in every other case.
C1_OneLinePerCommand ==
    [][ /\ ProcessOneStep => out_file'.n = 0
        /\ AtCommand =>
             IF Silent(pc, last')
             THEN AppendsNothing
             ELSE out_file'.n = out_file.n + 1 ]_vars

\* a record that was processed with two lines appended: run_until, then
\* run_next
C1_Witness ==
    /\ pc = "idle"
    /\ calls = <<"run_until", "run_next">>
    /\ out_file.n = 2

\* the decision table of process_one, for a thread with ThreadInfo info and
\* a record t
Table(info, t) ==
    LET cur_match == FileLine_eq(break_position(t.file_line), info.current.file_line)
        earlier == /\ info.last_target # None
                   /\ t.file_line # None
                   /\ info.last_target.filename = t.file_line.filename
                   /\ info.last_target.line < t.file_line.line
        row == << info.current.line_loc, t.line_loc >>
    IN CASE row = << Before, Before >> ->
              IF cur_match /\ earlier THEN "no-op" ELSE "run_until"
         [] row = << Before, Middle >> ->
              IF FileLine_eq(t.file_line, info.last_finished) THEN "no-op"
              ELSE IF cur_match THEN "run_next" ELSE "run_until_and_next"
         [] row = << Middle, Before >> -> "run_until"
         [] row = << Middle, Middle >> ->
              IF cur_match THEN "run_finish" ELSE "run_until_and_next"

\* the primitive an entry of the table invokes first
FirstOf(entry) == IF entry = "run_until_and_next" THEN "run_until" ELSE entry

\* C2: when the inferior is live and the switch to the record's thread
\* succeeds, the primitive process_one invokes first is the one the decision
\* table gives for the thread's ThreadInfo and the record: nothing for a
\* no-op; a run_until is a run_until of the record's file_line, and it is
\* followed by run_next exactly where the table says run_until then run_next.
C2_DecisionTable ==
    [][ (ProcessOneStep /\ pre'.live /\ pre'.switched) =>
          LET entry == Table(threads[tpos'.tid], tpos')
          IN /\ FirstCall' = FirstOf(entry)
             /\ entry = "no-op" => pc' = "idle" /\ ncmd' = 0
             /\ (cont' = "next") <=> (entry = "run_until_and_next")
             /\ FirstOf(entry) = "run_until" =>
                  IF tpos'.file_line = None
                  THEN pc' = "run_until_exit"
                  ELSE pc' = "run_until" /\ tpos'.file_line \in bps' ]_vars

\* a record at Before for a thread at Before that was processed as a no-op
\* (the thread is at the record's line, the previous target was earlier)
C2_Witness ==
    /\ pc = "idle"
    /\ pre.switched
    /\ pre.line_loc = Before
    /\ tpos.line_loc = Before
    /\ calls = <<>>

\* C3 (as stated): for a record at Before of a thread at Before that is not
\* a no-op, run_until is invoked once and nothing else is invoked.
C3_SingleRunUntil ==
    ( /\ pre.switched
      /\ pre.line_loc = Before
      /\ tpos.line_loc = Before
      /\ calls # <<>> )
    => calls = <<"run_until">>

\* C4 (as stated): once run_until(file_line) has been left, by a breakpoint
\* hit, a thread exit, a debugger error or a Timeout, none of its
\* breakpoints is valid.
C4_BreakpointDeleted ==
    ( /\ last.prim = "run_until"
      /\ pc # "run_until"
      /\ \/ last.r \in {"Exit", "Error", "Timeout"}
         \/ last.r = "Success" /\ last.pos.file_line # None )
    => bps = {}

\* C5: a Timeout of the continue of run_until(file_line) raises: no PC line
\* is written for it, the program is in its error state, and from there no
\* record is processed and the log is never closed.
C5_TimeoutFatal ==
    [][ /\ (pc = "run_until" /\ last'.r = "Timeout") =>
             /\ pc' = "error"
             /\ AppendsNothing
             /\ nread' = nread
        /\ pc = "error" => FALSE ]_vars

C5_Witness ==
    /\ pc = "error"
    /\ last.prim = "run_until"
    /\ last.r = "Timeout"
    /\ last.issued

\* the PC line append_answer writes for thread i stopped at position p
PcLine(i, p) == [tid |-> i, addr |-> p.pc - base_addr]

\* this step moves thread i to (Before, the line of position p), named
\* relative to the source directory
MovesToStop(i, p) ==
    /\ p.file_line # None
    /\ threads'[i].current.tid = i
    /\ threads'[i].current.line_loc = Before
    /\ threads'[i].current.file_line.filename = RelName(p.file_line.filename.name)
    /\ threads'[i].current.file_line.line = p.file_line.line

\* this step only flips thread i to Middle
FlipsToMiddle(i) ==
    /\ threads'[i].current.line_loc = Middle
    /\ threads'[i].current.file_line = threads[i].current.file_line
    /\ threads'[i].last_finished = threads[i].last_finished

\* C6 (as stated): run_next maps each result of its `next` to one line and
\* one transition: Clone or Timeout to a 0x0 line and Middle with the
\* file_line unchanged; Exit or Error to a 0x0 line and (Middle, none);
\* Success to the line of the new pc minus the load base and (Before, new
\* position).
C6_RunNextMapping ==
    [][ pc = "run_next" =>
          LET i == cur_info
              r == last'.r
          IN /\ r \in {"Clone", "Timeout"} =>
                  Appends(ZeroLine(i)) /\ FlipsToMiddle(i)
             /\ r \in {"Exit", "Error"} =>
                  /\ Appends(ZeroLine(i))
                  /\ threads'[i].current = ThreadPos(i, Middle, None)
             /\ r = "Success" =>
                  /\ Appends(PcLine(i, last'.pos))
                  /\ MovesToStop(i, last'.pos)
                  /\ pc' # "error" ]_vars

\* C7 (as stated): in run_finish a Timeout writes no line and leaves the
\* thread's ThreadInfo as it was; Clone, Exit and Error write one 0x0 line;
\* Success writes the pc minus the base and moves the thread to (Before, new
\* position) when the thread stopped at stack level 0 in a source line, and
\* otherwise writes nothing and changes nothing.
C7_RunFinishMapping ==
    [][ pc = "run_finish" =>
          LET i == cur_info
              r == last'.r
              p == last'.pos
          IN /\ r = "Timeout" =>
                  AppendsNothing /\ threads'[i] = threads[i]
             /\ r \in {"Clone", "Exit", "Error"} =>
                  Appends(ZeroLine(i))
             /\ r = "Success" =>
                  IF p.level = 0 /\ p.file_line # None
                  THEN Appends(PcLine(i, p)) /\ MovesToStop(i, p)
                  ELSE AppendsNothing /\ threads'[i] = threads[i] /\ pc' # "error" ]_vars

\* C8 (as stated): a Timeout in run_next or in run_finish writes exactly one
\* 0x0 line and marks the thread Middle.
C8_TimeoutSoftSame ==
    [][ (pc \in {"run_next", "run_finish"} /\ last'.r = "Timeout") =>
          /\ Appends(ZeroLine(cur_info))
          /\ threads'[cur_info].current.line_loc = Middle ]_vars

\* C8 (amended): a Timeout raises neither in run_next nor in run_finish.
\* In run_next it writes exactly one 0x0 line and flips the thread to
\* Middle, its file_line unchanged; in run_finish it writes no line and
\* leaves the thread's ThreadInfo as it was.
C8_TimeoutSoft ==
    [][ /\ (pc = "run_next" /\ last'.r = "Timeout") =>
             /\ Appends(ZeroLine(cur_info))
             /\ FlipsToMiddle(cur_info)
             /\ pc' # "error"
        /\ (pc = "run_finish" /\ last'.r = "Timeout") =>
             /\ AppendsNothing
             /\ threads'[cur_info] = threads[cur_info]
             /\ pc' # "error" ]_vars

\* a record was processed by run_finish whose `finish` timed out, and no
\* line was written for it
C8_Witness ==
    /\ pc = "idle"
    /\ last.prim = "run_finish"
    /\ last.r = "Timeout"
    /\ last.issued
    /\ out_file.n = 0

\* this step is process_one taking a record `> None`
NoneRecordStep ==
    /\ ProcessOneStep
    /\ tpos'.line_loc = Middle
    /\ tpos'.file_line = None

\* this step is process_one returning without a primitive: no command, no
\* line, the thread's position as it was
NoOpStep ==
    /\ pc' = "idle"
    /\ calls' = <<>>
    /\ ncmd' = 0
    /\ out_file'.n = 0
    /\ threads'[tpos'.tid].current = threads[tpos'.tid].current

\* C9 (as stated): a record `> None` is a no-op if and only if its thread is
\* at (Middle, none).
C9_NoOpIffMiddleNone ==
    [][ NoneRecordStep =>
          (NoOpStep <=>
             threads[tpos'.tid].current = ThreadPos(tpos'.tid, Middle, None)) ]_vars

\* C9 (amended): a record `> None` is a no-op if and only if the inferior is
\* not live, or the switch to its thread fails, or the thread is at Before
\* and has no last finished line.  In every other case process_one enters a
\* primitive with the thread selected, so that a command is issued; for a
\* live thread at (Middle, none) that the debugger switches to, it is
\* run_finish.
C9_NoOpIff ==
    [][ NoneRecordStep =>
          LET info == threads[tpos'.tid]
              skip == \/ ~pre'.live
                      \/ ~pre'.switched
                      \/ info.current.line_loc = Before /\ info.last_finished = None
          IN /\ skip <=> NoOpStep
             /\ ~skip => AtCommand' /\ selected' \in valid'
             /\ (~skip /\ info.current = ThreadPos(tpos'.tid, Middle, None)) =>
                  pc' = "run_finish" ]_vars

\* a record `> None` for a live thread at (Middle, none): process_one is at
\* the `finish` of run_finish
C9_Witness ==
    /\ pc = "run_finish"
    /\ pre.switched
    /\ tpos.line_loc = Middle
    /\ tpos.file_line = None
    /\ threads[cur_info].current = ThreadPos(cur_info, Middle, None)
    /\ ncmd = 0

\* C10 (as stated): a trace line with the tag `-` is not dropped from the
\* input: once one has been read, the replay has stopped with an error.
C10_AfterRejected ==
    ndropped > 0 => pc = "error"

\* C11 (as stated): when the inferior is live and the switch to the
\* record's thread fails, process_one raises whenever the record's file_line
\* is not none, whatever position is stored for the thread, and returns
\* silently only when the record's file_line is none.
C11_SwitchFailureFatal ==
    [][ (ProcessOneStep /\ pre'.live /\ ~pre'.switched) =>
          IF tpos'.file_line # None
          THEN pc' = "error"
          ELSE NoOpStep ]_vars

\* C11 (amended): when the inferior is live and the switch to the record's
\* thread fails, process_one raises if and only if neither the record's
\* file_line nor the file_line stored for the thread is none; when either is
\* none the record is skipped silently.  In both cases nothing is written
\* and no command is issued.
C11_SwitchFailure ==
    [][ (ProcessOneStep /\ pre'.live /\ ~pre'.switched) =>
          /\ IF /\ tpos'.file_line # None
                /\ threads[tpos'.tid].current.file_line # None
             THEN pc' = "error"
             ELSE NoOpStep
          /\ out_file'.n = 0
          /\ ncmd' = 0
          /\ threads' = threads ]_vars

\* a record with a file_line was skipped silently: the switch to its thread
\* failed and the thread is stored with no file_line
C11_Witness ==
    /\ pc = "idle"
    /\ pre.live
    /\ ~pre.switched
    /\ tpos.file_line # None
    /\ threads[cur_info].current.file_line = None
    /\ calls = <<>>

\* C12 (as stated): for a record whose file_line is not none and for which
\* break_position is none (the key is past the end of the line table), the
\* run_until process_one calls is run_until_exit, with no breakpoint set.
C12_MissingLineRunsToExit ==
    [][ ( /\ ProcessOneStep
          /\ tpos'.file_line # None
          /\ break_position(tpos'.file_line) = None
          /\ FirstCall' = "run_until" ) =>
          pc' = "run_until_exit" /\ bps' = {} ]_vars

\* C13 (as stated): every `continue` run_until_exit issues writes exactly one
\* 0x0 line and no line is written without a `continue`; the loop is left
\* exactly when the result is Exit or Error, and then the thread is at
\* (Middle, none) with no last finished line.  (A `continue` during which
\* run_gdb_cmd raises gives no result and is left aside.)
C13_RunUntilExit ==
    [][ (pc = "run_until_exit" /\ last'.r # "NoNewThread") =>
          LET i == cur_info
              left == ~(pc' = "run_until_exit" /\ calls' = calls)
          IN /\ IF last'.issued
                THEN Appends(ZeroLine(i))
                ELSE AppendsNothing
             /\ left <=> last'.r \in {"Exit", "Error"}
             /\ left => /\ threads'[i].current = ThreadPos(i, Middle, None)
                        /\ threads'[i].last_finished = None ]_vars

\* C19 (as stated, for the Replayer): after a run_until, run_next or
\* run_finish that ended with Success, a thread recorded as Before is at the
\* first instruction of its line.
C19_BeforeIsLineBegin ==
    [][ ( /\ pc \in {"run_until", "run_next", "run_finish"}
          /\ last'.r = "Success"
          /\ pc' # "error" ) =>
          (threads'[cur_info].current.line_loc = Before =>
             at_line_begin(last'.pos)) ]_vars

(***************************************************************************)
(* The Tracer (tracer.py).                                                 *)
(*                                                                         *)
(* Bounds of the Tracer's runs.  The inferior is an input: its first       *)
(* thread computes for a number of steps, each of which times out with the *)
(* thread where it was, and then the busy part of the run begins, which is *)
(* MaxBusy debugger commands long.  The length of the quiet part is drawn  *)
(* from QuietLens.                                                         *)
(***************************************************************************)
MaxBusy == 2       \* debugger commands of the busy part

(***************************************************************************)
(* tracer.py: ThreadInfo.  sched_weight is a double that is only ever      *)
(* 1.0, 1.0 multiplied k times by 0.1, or 0.  It is kept as the number k   *)
(* of multiplications; the product is 0.0 from k = Underflow on.           *)
(***************************************************************************)
\* tracer.py:14  DefaultSchedWeight = 1.0: no multiplication
DefaultSchedWeight == 0

\* tracer.py:15  DropSchedWeight = 0.1: the least k for which 1.0 multiplied
\* k times by the double 0.1 is the double 0.0 (after 323 multiplications the
\* product is the least subnormal, 5e-324)
Underflow == 324

\* tracer.py:187  info.sched_weight *= ThreadInfo.DropSchedWeight
times_DropSchedWeight(w) == IF w < Underflow THEN w + 1 ELSE Underflow

\* tracer.py:191  info.sched_weight = 0
zero_weight == Underflow

\* sched_weight > 0
positive(w) == w < Underflow

\* position.py:98-101  Position(file_line, pc)
Position(file_line, addr) == [file_line |-> file_line, pc |-> addr]

\* position.py:126-127  thread_position of a thread that is not valid
invalid_position == Position(None, 0)

\* tracer.py:17-21  ThreadInfo.__init__, and the position that
\* _init_threads (142) and handle_new_threads (132) set next
TracerThreadInfo(num, position) ==
    [num |-> num, sched_weight |-> DefaultSchedWeight, position |-> position]

(***************************************************************************)
(* tracer.py: PosCount.  data is the bag of the window's strings.  The     *)
(* window never holds RecentCnt strings in the runs of this model, so the  *)
(* list `log` that add_new keeps for forgetting the oldest is left out.    *)
(***************************************************************************)
\* tracer.py:39
RecentCnt == 1000

\* tracer.py:41-44  PosCount.__init__
PosCount == [data |-> EmptyBag, num |-> 0]

\* tracer.py:46-52  PosCount.add_new, below RecentCnt
add_new(w, loc) ==
    [data |-> w.data (+) SetToBag({loc}), num |-> w.num + 1]

\* tracer.py:65-67  PosCount.clear_counter
clear_counter(w) == [data |-> EmptyBag, num |-> 0]

(***************************************************************************)
(* tracer.py: detect_loop.                                                 *)
(***************************************************************************)
\* tracer.py:72
LoopTheshold == 20

\* tracer.py:200  the least window detect_loop looks at
LoopSamples == 100

\* every string of the window occurs equally often
uniform(w) ==
    \A a, b \in BagToSet(w.data) : CopiesIn(a, w.data) = CopiesIn(b, w.data)

\* tracer.py:202-207  entropy > math.log(self.LoopTheshold), for a window
\* of at most LoopTheshold different strings or a uniform one.  With d
\* different strings the entropy is at most log(d), and it is log(d) when
\* the window is uniform.  In doubles, the sum of 20 terms -0.05*log(0.05)
\* is the double math.log(20) itself: the comparison is False.
entropy_exceeds(w) ==
    LET d == Cardinality(BagToSet(w.data))
    IN CASE d <= LoopTheshold -> FALSE
         [] d > LoopTheshold /\ uniform(w) -> TRUE

\* tracer.py:197-210  detect_loop on the window of the thread: what it
\* returns and the window afterwards
detect_loop(w) ==
    IF w.num < LoopSamples
    THEN [ret |-> FALSE, pos_count |-> w]
    ELSE IF entropy_exceeds(w)
         THEN [ret |-> FALSE, pos_count |-> w]
         ELSE [ret |-> TRUE, pos_count |-> clear_counter(w)]

(***************************************************************************)
(* tracer.py: the Tracer object.                                           *)
(***************************************************************************)
\* tracer.py:81-83, 137-145  __init__ and _init_threads: the Tracer after
\* start(), the inferior's first thread being at position p
Tracer_start(p) ==
    [threads |-> << TracerThreadInfo(1, p) >>,
     new_thread |-> 0,
     new_tids |-> {},
     pos_count |-> (1 :> PosCount),
     blacklist |-> {},
     last_thread_info |-> 1]

\* the function a line of the table belongs to: the lines of file 1 are
\* main's, the lines of file 2 the function work's
function_of(file_line) ==
    IF file_line.filename.name = 1 THEN "main" ELSE "work"

\* position.py:168-176  lines_of_function(frame.block())
lines_of_function(fn) ==
    { positions[k].line : k \in { j \in 1..Len(positions) :
                                    function_of(positions[j]) = fn } }

\* tracer.py:212-219  add_blacklist returns True: the thread is at the
\* begin of a line and its newest frame is not main's
add_blacklist_ret(info) ==
    /\ at_line_begin(info.position)
    /\ function_of(info.position.file_line) # "main"

\* tracer.py:220-230  the (file name, line) pairs add_blacklist records
add_blacklist_lines(info) ==
    { << info.position.file_line.filename, l >> :
        l \in lines_of_function(function_of(info.position.file_line)) }

\* tracer.py:234-241  in_blacklist
in_blacklist(tr, info) ==
    /\ at_line_begin(info.position)
    /\ << info.position.file_line.filename, info.position.file_line.line >>
         \in tr.blacklist

\* tracer.py:159-166, changed: update_log goes by the position it has kept
\* also when the thread is not valid any more
update_log_tpos_by_position(tr, vld) ==
    LET info == tr.threads[tr.last_thread_info]
        pos == info.position
    IN ThreadPos(info.num,
                 IF at_line_begin(pos) THEN Before ELSE Middle,
                 IF pos.file_line = None
                 THEN None ELSE relative_to(pos.file_line))

\* tracer.py:153-166  the ThreadPos update_log writes
update_log_tpos(tr, vld) ==
    LET info == tr.threads[tr.last_thread_info]
        pos == info.position
    IN IF info.num \notin vld
       THEN ThreadPos(info.num, Middle, None)
       ELSE ThreadPos(info.num,
                      IF at_line_begin(pos) THEN Before ELSE Middle,
                      IF pos.file_line = None
                      THEN None ELSE relative_to(pos.file_line))

\* tracer.py:171  update_log adds the string to the thread's window
update_log(tr, vld) ==
    LET t == update_log_tpos(tr, vld)
    IN [tr EXCEPT !.pos_count[t.tid] = add_new(@, t)]

RECURSIVE add_threads(_, _, _)
\* tracer.py:126-135  the loop of handle_new_threads over the threads that
\* are not tracked, where[tid] being the thread_position of thread tid
add_threads(tr, new, where) ==
    IF new = {}
    THEN tr
    ELSE LET tid == CHOOSE t \in new : \A u \in new : t <= u
         IN add_threads(
              [tr EXCEPT !.new_tids = @ \cup {tid},
                         !.threads = Append(@, TracerThreadInfo(tid, where[tid])),
                         !.new_thread = @ - 1,
                         !.pos_count = (tid :> PosCount) @@ @],
              new \ {tid}, where)

\* tracer.py:125  the numbers of the tracked threads that are valid
tracked_valid(tr, vld) ==
    { tr.threads[k].num : k \in DOMAIN tr.threads } \cap vld

\* tracer.py:123-135  handle_new_threads; the inferior lists its valid
\* threads
handle_new_threads(tr, vld, where) ==
    IF tr.new_thread > 0
    THEN add_threads(tr, vld \ tracked_valid(tr, vld), where)
    ELSE tr

\* tracer.py:173-175  random_thread: an index whose weight is positive.
\* When no weight is positive, random.choices raises ValueError (Python 3.9
\* and later; 0 here) or returns the last index (earlier versions).
random_thread(tr) ==
    LET pos == { k \in DOMAIN tr.threads : positive(tr.threads[k].sched_weight) }
    IN IF pos # {} THEN pos ELSE {0, Len(tr.threads)}

\* tracer.py:251  any(t.thread.is_valid() for t in self.threads if t != info)
others_valid(tr, i, vld) ==
    \E k \in DOMAIN tr.threads : k # i /\ tr.threads[k].num \in vld

\* tracer.py:251-261, changed: detect_loop is evaluated before the test
\* for other valid threads
try_step_cmd_detect_first(tr, i, vld, coin) ==
    LET info == tr.threads[i]
        tid == info.num
        tr1 == [tr EXCEPT !.new_tids = @ \ {tid}]
        d == detect_loop(tr1.pos_count[tid])
        tr2 == [tr1 EXCEPT !.pos_count[tid] = d.pos_count]
    IN IF ~others_valid(tr1, i, vld)
       THEN [tracer |-> tr2, cmd |-> "continue", black |-> {}]
       ELSE IF in_blacklist(tr1, info)
       THEN [tracer |-> tr1, cmd |-> "finish", black |-> {}]
       ELSE IF d.ret /\ coin
       THEN IF add_blacklist_ret(info)
            THEN [tracer |-> [tr2 EXCEPT !.blacklist =
                                           @ \cup add_blacklist_lines(info)],
                  cmd |-> "finish",
                  black |-> { << tid, p[1], p[2] >> :
                                p \in add_blacklist_lines(info) }]
            ELSE [tracer |-> tr2, cmd |-> "step", black |-> {}]
       ELSE [tracer |-> tr2, cmd |-> "step", black |-> {}]

\* tracer.py:244-261  try_step up to its first command: the Tracer and the
\* command; coin is random.random() < ProbOutLoop
try_step_cmd(tr, i, vld, coin) ==
    LET info == tr.threads[i]
        tid == info.num
        tr1 == [tr EXCEPT !.new_tids = @ \ {tid}]
        d == detect_loop(tr1.pos_count[tid])
        tr2 == [tr1 EXCEPT !.pos_count[tid] = d.pos_count]
    IN IF ~others_valid(tr1, i, vld)
       THEN [tracer |-> tr1, cmd |-> "continue", black |-> {}]
       ELSE IF in_blacklist(tr1, info)
       THEN [tracer |-> tr1, cmd |-> "finish", black |-> {}]
       ELSE IF d.ret /\ coin
       THEN IF add_blacklist_ret(info)
            THEN [tracer |-> [tr2 EXCEPT !.blacklist =
                                           @ \cup add_blacklist_lines(info)],
                  cmd |-> "finish",
                  black |-> { << tid, p[1], p[2] >> :
                                p \in add_blacklist_lines(info) }]
            ELSE [tracer |-> tr2, cmd |-> "step", black |-> {}]
       ELSE [tracer |-> tr2, cmd |-> "step", black |-> {}]

\* tracer.py:186-195  Tracer.step after try_step has returned ok
step_return(tr, i, ok) ==
    [tr EXCEPT !.threads[i].sched_weight =
                  IF ok THEN DefaultSchedWeight ELSE times_DropSchedWeight(@),
               !.last_thread_info = i]

\* tracer.py:282-288  the commands that move the thread out
move_out_cmds(land) ==
    IF land.file_line = None
    THEN << "step" >>
    ELSE IF land.level > 0
         THEN [k \in 1..land.level |-> "finish"]
         ELSE << "step" >>

(***************************************************************************)
(* The debugger as the Tracer sees it.  A command given through            *)
(* gdb_execute_timeout is answered by                                      *)
(*   r     "Success", "Timeout" (TimeoutError) or "Error" (gdb.error)      *)
(*   land  where the commanded thread is afterwards, as thread_position    *)
(*         reports it (with the level); None when the thread is gone       *)
(*   born  whether the inferior made a thread while the command ran: the   *)
(*         debugger reports it and the handler of _setup_handler           *)
(*         (tracer.py:120) runs                                            *)
(*   gone  the threads that ended while the command ran                    *)
(***************************************************************************)
TracerStops == Stops

\* where `start` (tracer.py:93) leaves the first thread: at the begin of
\* main's first line, or at a place of no line when the table has no line
\* of main
StartStops ==
    { s \in TracerStops :
        \/ s.file_line = None
        \/ /\ at_line_begin(s)
           /\ s.level = 0
           /\ function_of(s.file_line) = "main" }

\* the number of the thread the inferior makes next
next_tid == CHOOSE t \in 1..(MaxThreads + 1) :
               t \notin reported /\ \A u \in 1..(t - 1) : u \in reported

\* the thread try_step commands
commanded == tracer.threads[local.thread_index]

TracerAnswers ==
    { a \in [r : {"Success", "Timeout", "Error"},
             land : TracerStops \cup {None},
             born : BOOLEAN,
             gone : SUBSET (1..MaxThreads)] :
        /\ a.born => next_tid <= MaxThreads
        /\ a.gone \subseteq valid \cup (IF a.born THEN {next_tid} ELSE {})
        /\ (a.land = None) <=> (commanded.num \in a.gone) }

\* the command timed out and left the inferior where it was
quiet(a) ==
    /\ a.r = "Timeout"
    /\ ~a.born
    /\ a.gone = {}
    /\ Position(a.land.file_line, a.land.pc) = commanded.position

\* the lengths of the quiet part: none, as long as it takes to fill the
\* window detect_loop looks at, as long as it takes to wear a weight down
QuietLens == {0, LoopSamples, Underflow}

\* the answers the inferior and the bounds of the run admit
admitted(a) ==
    IF steps < hist.quiet
    THEN quiet(a)
    ELSE hist.busy < MaxBusy

NoHist(q) ==
    [black |-> {}, cmd |-> "none", r |-> "none", quiet |-> q, busy |-> 0]

\* the debugger and the handler of _setup_handler after the answer a
Answered(a) ==
    /\ valid' = (valid \cup (IF a.born THEN {next_tid} ELSE {})) \ a.gone
    /\ reported' = reported \cup (IF a.born THEN {next_tid} ELSE {})
    /\ hist' = [hist EXCEPT !.cmd = local.cmd,
                            !.r = a.r,
                            !.busy = IF steps < hist.quiet THEN 0 ELSE @ + 1]

\* tracer.py:120  the handler: new_thread.add(1)
handler(tr, a) ==
    [tr EXCEPT !.new_thread = @ + (IF a.born THEN 1 ELSE 0)]

\* tracer.py:266, 297  thread_position(info.thread, ...) after a Timeout
reread(tr, i, a) ==
    [tr EXCEPT !.threads[i].position =
                  IF a.land = None
                  THEN invalid_position
                  ELSE Position(a.land.file_line, a.land.pc)]

\* try_step returns ok, Tracer.step returns True (tracer.py:185-195) and
\* main calls update_log (tracer.py:321-322)
Returns(tr, i, ok) ==
    LET tr1 == step_return(tr, i, ok)
    IN /\ tracer' = update_log(tr1, valid')
       /\ log' = update_log_tpos(tr1, valid')
       /\ pc' = "step"
       /\ local' = None
       /\ steps' = steps + 1

\* tracer.py:271-293  the loop of try_step from its head to the first
\* command of the move out, after a command that left the thread at land
LoopHead(tr, i, land) ==
    IF tr.threads[i].num \notin valid'
    THEN Returns(tr, i, FALSE)
    ELSE LET tr1 == [tr EXCEPT !.threads[i].position =
                                  Position(land.file_line, land.pc)]
             tr2 == [tr1 EXCEPT !.last_thread_info = i]
         IN IF at_line_begin(land)
            THEN Returns(tr1, i, TRUE)
            ELSE /\ tracer' = update_log(tr2, valid')
                 /\ log' = update_log_tpos(tr2, valid')
                 /\ pc' = "move_out"
                 /\ local' = [thread_index |-> i,
                              cmd |-> move_out_cmds(land)[1],
                              cmds |-> Tail(move_out_cmds(land))]
                 /\ steps' = steps

(***************************************************************************)
(* Actions of the Tracer.                                                  *)
(***************************************************************************)
\* the Replayer is not part of a run of the Tracer
ReplayerOff ==
    /\ threads = <<>> /\ cur_info = 0 /\ out_file = [n |-> 0, last |-> NoLine]
    /\ bps = {} /\ cont = "ret" /\ line = None /\ nread = 0 /\ ndropped = 0
    /\ calls = <<>> /\ ncmd = 0 /\ last = NoCmd /\ pre = NoPre

\* tracer.py:85-98, 320  Tracer.start: the inferior has one thread, stopped
\* where `start` left it
TracerInit ==
    /\ tracer \in { Tracer_start(Position(s.file_line, s.pc)) : s \in StartStops }
    /\ log = None
    /\ reported = {1}
    /\ valid = {1}
    /\ selected = 1
    /\ local = None
    /\ steps = 0
    /\ hist \in { NoHist(q) : q \in QuietLens }
    /\ pc = "step"
    /\ ReplayerOff
    /\ TimeoutOff

\* tracer.py:321, 178-191, 243-261  main calls Tracer.step, or its loop
\* comes round: up to the first command of try_step, to the end of the
\* loop's body when the chosen thread is not valid, or to the end of the
\* run (tracer.py:179-180, 323)
step ==
    /\ pc = "step"
    /\ UNCHANGED << replayer_vars, timeout_vars, valid, reported, log, steps >>
    /\ IF ~gdb_live
       THEN /\ pc' = "done"
            /\ UNCHANGED << tracer, selected, local, hist >>
       ELSE \E where \in [valid \ tracked_valid(tracer, valid) -> TracerStops],
               coin \in BOOLEAN :
              LET at == [t \in DOMAIN where |->
                           Position(where[t].file_line, where[t].pc)]
                  tr1 == handle_new_threads(tracer, valid, at)
              IN \E i \in random_thread(tr1) :
                   IF i = 0
                   THEN \* ValueError
                        /\ pc' = "error"
                        /\ tracer' = tr1
                        /\ UNCHANGED << selected, local, hist >>
                   ELSE IF tr1.threads[i].num \in valid
                   THEN LET c == try_step_cmd(tr1, i, valid, coin)
                        IN /\ tracer' = c.tracer
                           /\ selected' = tr1.threads[i].num
                           /\ local' = [thread_index |-> i, cmd |-> c.cmd,
                                        cmds |-> <<>>]
                           /\ hist' = [hist EXCEPT !.black = @ \cup c.black]
                           /\ pc' = "try_step"
                   ELSE /\ tracer' = [tr1 EXCEPT !.threads[i].sched_weight =
                                                    zero_weight]
                        /\ pc' = "step"
                        /\ UNCHANGED << selected, local, hist >>

\* tracer.py:263-293  the first command of try_step and what follows it
try_step_execute ==
    /\ pc = "try_step"
    /\ UNCHANGED << replayer_vars, timeout_vars, selected >>
    /\ \E a \in TracerAnswers :
         LET i == local.thread_index
             tr == handler(tracer, a)
         IN /\ admitted(a)
            /\ Answered(a)
            /\ CASE a.r = "Timeout" -> Returns(reread(tr, i, a), i, FALSE)
                 [] a.r = "Error" -> Returns(tr, i, FALSE)
                 [] a.r = "Success" -> LoopHead(tr, i, a.land)

\* tracer.py:291-298, 271-293  a command of the move out and what follows it
move_out_execute ==
    /\ pc = "move_out"
    /\ UNCHANGED << replayer_vars, timeout_vars, selected >>
    /\ \E a \in TracerAnswers :
         LET i == local.thread_index
             tr == handler(tracer, a)
         IN /\ admitted(a)
            /\ Answered(a)
            /\ CASE a.r = "Timeout" -> Returns(reread(tr, i, a), i, FALSE)
                 [] a.r = "Error" ->
                      \* gdb.error is not caught: the run ends
                      /\ pc' = "error"
                      /\ tracer' = tr
                      /\ UNCHANGED << log, local, steps >>
                 [] a.r = "Success" ->
                      IF local.cmds = <<>>
                      THEN LoopHead(tr, i, a.land)
                      ELSE IF commanded.num \notin valid'
                      THEN Returns(tr, i, FALSE)
                      ELSE /\ tracer' = tr
                           /\ local' = [local EXCEPT !.cmd = Head(local.cmds),
                                                     !.cmds = Tail(local.cmds)]
                           /\ UNCHANGED << pc, log, steps >>

TracerNext ==
    \/ step
    \/ try_step_execute
    \/ move_out_execute

TracerSpec == TracerInit /\ [][TracerNext]_vars

(***************************************************************************)
(* Properties of the Tracer.                                               *)
(***************************************************************************)
\* the numbers of the threads that have a ThreadInfo
tracked == { tracer.threads[k].num : k \in DOMAIN tracer.threads }

\* this step is a debugger command of try_step being answered
CommandStep == pc \in {"try_step", "move_out"} /\ hist' # hist

\* C14 (as stated): a tracked thread that is valid has a positive
\* scheduling weight; only a thread that is not valid has weight 0.
C14_ValidHasWeight ==
    \A k \in DOMAIN tracer.threads :
        tracer.threads[k].num \in valid =>
            positive(tracer.threads[k].sched_weight)

\* C15 (as stated): a Timeout or a DebuggerError of any command of try_step
\* does not end the run: the step returns to the main loop with the
\* thread's weight dropped.
C15_FailureIsSoft ==
    [][ (CommandStep /\ hist'.r \in {"Timeout", "Error"}) =>
          /\ pc' = "step"
          /\ steps' = steps + 1
          /\ tracer'.threads[local.thread_index].sched_weight =
               times_DropSchedWeight(
                 tracer.threads[local.thread_index].sched_weight) ]_vars

\* C17 (as stated): a line add_blacklist has recorded for a thread is not
\* among the samples of that thread's window as a place the thread stopped
\* at.
C17_BlacklistedNotSampled ==
    \A b \in hist.black :
        \A key \in BagToSet(tracer.pos_count[b[1]].data) :
            ~ /\ key.line_loc = Before
              /\ key.file_line = FileLine(path_rel_to(b[2]), b[3],
                                          key.file_line.address)

\* C18 (as stated): when the main loop has ended, every thread the debugger
\* has reported has a ThreadInfo, and no thread has two.
C18_EveryReportedTracked ==
    pc = "done" =>
        /\ reported \subseteq tracked
        /\ \A j, k \in DOMAIN tracer.threads :
             tracer.threads[j].num = tracer.threads[k].num => j = k

(***************************************************************************)
(* detect_loop on the windows it can be given (tracer.py:197-210).         *)
(***************************************************************************)
MaxKeys == 22      \* different strings of a window
MaxCopies == 6     \* times the strings of a window occur

\* the strings of a window: thread 1 at the begin of the lines 1..d
WindowKeys(d) ==
    { ThreadPos(1, Before, FileLine(RelName(1), l, 0)) : l \in 1..d }

\* a window of d different strings that occur m times each, the string of
\* line 1 once more when skewed
Window(d, m, skewed) ==
    LET data == [k \in WindowKeys(d) |->
                   IF skewed /\ k.file_line.line = 1 THEN m + 1 ELSE m]
    IN [data |-> data, num |-> BagCardinality(data)]

\* the windows: the uniform ones, and the skewed ones of at most
\* LoopTheshold different strings
Windows ==
    { Window(d, m, FALSE) : d \in 1..MaxKeys, m \in 1..MaxCopies }
      \cup { Window(d, m, TRUE) : d \in 2..LoopTheshold, m \in 1..MaxCopies }

\* a Tracer whose thread 1 has the window w
DetectInit ==
    /\ tracer \in { [Tracer_start(invalid_position) EXCEPT !.pos_count[1] = w] :
                      w \in Windows }
    /\ local = tracer.pos_count[1]
    /\ hist = [ret |-> FALSE]
    /\ pc = "detect_loop"
    /\ log = None /\ reported = {1} /\ valid = {1} /\ selected = 1 /\ steps = 0
    /\ ReplayerOff
    /\ TimeoutOff

\* tracer.py:197-210  detect_loop(1)
detect_loop_call ==
    /\ pc = "detect_loop"
    /\ tracer' = [tracer EXCEPT !.pos_count[1] = detect_loop(@).pos_count]
    /\ hist' = [ret |-> detect_loop(tracer.pos_count[1]).ret]
    /\ pc' = "returned"
    /\ UNCHANGED << replayer_vars, timeout_vars, valid, selected, reported,
                    log, local, steps >>

DetectNext == detect_loop_call

DetectSpec == DetectInit /\ [][DetectNext]_vars

(***************************************************************************)
(* Properties of detect_loop.                                              *)
(***************************************************************************)
\* the entropy of the window w is below log(LoopTheshold): it has fewer
\* than LoopTheshold different strings, or LoopTheshold strings that do not
\* occur equally often (a window of Windows)
EntropyBelow(w) ==
    LET d == Cardinality(BagToSet(w.data))
    IN d < LoopTheshold \/ (d = LoopTheshold /\ ~uniform(w))

\* C16 (as stated): with at least 100 samples, detect_loop declares a loop
\* exactly when the entropy is strictly below log(20); a window it does not
\* declare a loop is left as it was, so a window of 20 strings with equal
\* counts is neither declared nor cleared.
C16_StrictlyBelow ==
    pc = "returned" =>
        /\ hist.ret <=> (local.num >= LoopSamples /\ EntropyBelow(local))
        /\ ~hist.ret => tracer.pos_count[1] = local
        /\ (local.num >= LoopSamples /\ ~EntropyBelow(local)) =>
             tracer.pos_count[1] = local

(***************************************************************************)
(* gdb_execute_timeout beside its delay_signal process (gdb_utils.py).     *)
(*                                                                         *)
(*   pc       where the caller is: "spawned" (lines 35-37, the process is  *)
(*            started and the try not entered), "execute" (line 40, in     *)
(*            gdb_execute), "poll" (before line 43), "kill" (before line   *)
(*            48), "return" (before lines 49-51), "untimed" (line 32, no   *)
(*            timeout), "returned" (the call is over)                      *)
(*   proc     the shell `sleep t && kill -INT pid`: "none" (no timeout),   *)
(*            "sleeping", "signalled" (kill has sent the signal, the shell *)
(*            has not ended yet), "exited", "killed" (by proc.kill())      *)
(*   sigint   the signal: "none", "pending" (sent, not yet seen by the     *)
(*            caller), and, once it has raised KeyboardInterrupt, where:   *)
(*            "in_flight" (in gdb_execute), "in_python" (in the Python     *)
(*            code of the call), "stray" (after the call)                  *)
(*   gdb_cmd  the command: its fate, which is an input ("returns",         *)
(*            "fails" with gdb.error, "hangs"), its state: "idle",         *)
(*            "running", "returned", "failed", "interrupted", and the      *)
(*            number n of the call among the caller's calls                *)
(*   result   "pending", "Success", "Timeout" (TimeoutError),              *)
(*            "DebuggerError" (gdb.error), "KeyboardInterrupt"             *)
(***************************************************************************)
MaxCalls == 2      \* calls of gdb_execute_timeout the caller makes

Fates == {"returns", "fails", "hangs"}

\* gdb_utils.py:28-37  gdb_execute_timeout is called: without a timeout,
\* or with one and delay_signal has started the process
TimeoutInit ==
    /\ gdb_cmd \in [fate : Fates, state : {"idle"}, n : {1}]
    /\ \/ proc = "none" /\ pc = "untimed"
       \/ proc = "sleeping" /\ pc = "spawned"
    /\ sigint = "none"
    /\ result = "pending"
    /\ valid = {1}
    /\ selected = 1
    /\ ReplayerOff
    /\ TracerOff

OnlyTimeout == UNCHANGED << replayer_vars, tracer_vars, valid, selected >>

\* gdb_utils.py:31-33  no timeout: gdb_execute(cmd, show); return
untimed_execute ==
    /\ pc = "untimed"
    /\ gdb_cmd.fate # "hangs"
    /\ gdb_cmd' = [gdb_cmd EXCEPT !.state =
                      IF gdb_cmd.fate = "returns" THEN "returned" ELSE "failed"]
    /\ result' = IF gdb_cmd.fate = "returns" THEN "Success" ELSE "DebuggerError"
    /\ pc' = "returned"
    /\ UNCHANGED << proc, sigint >>
    /\ OnlyTimeout

\* gdb_utils.py:39-40  the try is entered and gdb_execute begins
gdb_execute_begin ==
    /\ pc = "spawned"
    /\ pc' = "execute"
    /\ gdb_cmd' = [gdb_cmd EXCEPT !.state = "running"]
    /\ UNCHANGED << proc, sigint, result >>
    /\ OnlyTimeout

\* gdb_utils.py:40-42  gdb_execute returns or raises gdb.error, which is
\* kept in gdb_bad
gdb_execute_end ==
    /\ pc = "execute"
    /\ gdb_cmd.fate # "hangs"
    /\ gdb_cmd' = [gdb_cmd EXCEPT !.state =
                      IF gdb_cmd.fate = "returns" THEN "returned" ELSE "failed"]
    /\ pc' = "poll"
    /\ UNCHANGED << proc, sigint, result >>
    /\ OnlyTimeout

\* gdb_utils.py:43-45, 52-53  proc.poll(): the process has ended, raise
\* KeyboardInterrupt, which becomes TimeoutError; or it has not
poll ==
    /\ pc = "poll"
    /\ IF proc = "exited"
       THEN pc' = "returned" /\ result' = "Timeout"
       ELSE pc' = "kill" /\ result' = result
    /\ UNCHANGED << proc, sigint, gdb_cmd >>
    /\ OnlyTimeout

\* gdb_utils.py:48  proc.kill()
proc_kill ==
    /\ pc = "kill"
    /\ proc' = IF proc = "exited" THEN "exited" ELSE "killed"
    /\ pc' = "return"
    /\ UNCHANGED << sigint, gdb_cmd, result >>
    /\ OnlyTimeout

\* gdb_utils.py:49-51  raise gdb_bad, or return ans
return_ans ==
    /\ pc = "return"
    /\ result' = IF gdb_cmd.state = "failed" THEN "DebuggerError" ELSE "Success"
    /\ pc' = "returned"
    /\ UNCHANGED << proc, sigint, gdb_cmd >>
    /\ OnlyTimeout

\* gdb_utils.py:12-17  the sleep is over and kill sends the signal to the
\* caller's process
delay_signal_kill ==
    /\ proc = "sleeping"
    /\ proc' = "signalled"
    /\ sigint' = "pending"
    /\ UNCHANGED << pc, gdb_cmd, result >>
    /\ OnlyTimeout

\* gdb_utils.py:12-17  the shell ends after its kill
delay_signal_exit ==
    /\ proc = "signalled"
    /\ proc' = "exited"
    /\ UNCHANGED << pc, sigint, gdb_cmd, result >>
    /\ OnlyTimeout

\* the signal reaches the caller, where KeyboardInterrupt is raised: in
\* gdb_execute or in the Python code of the try (gdb_utils.py:38-53,
\* TimeoutError), before the try (35-37, KeyboardInterrupt itself), or
\* after the call
interrupt ==
    /\ sigint = "pending"
    /\ CASE pc = "execute" ->
              /\ sigint' = "in_flight"
              /\ gdb_cmd' = [gdb_cmd EXCEPT !.state = "interrupted"]
              /\ result' = "Timeout"
              /\ pc' = "returned"
         [] pc \in {"poll", "kill", "return"} ->
              /\ sigint' = "in_python"
              /\ result' = "Timeout"
              /\ pc' = "returned"
              /\ UNCHANGED gdb_cmd
         [] pc = "spawned" ->
              /\ sigint' = "in_python"
              /\ result' = "KeyboardInterrupt"
              /\ pc' = "returned"
              /\ UNCHANGED gdb_cmd
         [] pc = "returned" ->
              /\ sigint' = "stray"
              /\ UNCHANGED << pc, gdb_cmd, result >>
    /\ UNCHANGED proc
    /\ OnlyTimeout

\* the caller's next call (tracer.py:264, 295: one call for each command
\* of try_step).  The process of the call before plays no part any more; a
\* signal it has sent and that has not been seen yet is still pending.
call_again ==
    /\ pc = "returned"
    /\ proc # "none"
    /\ gdb_cmd.n < MaxCalls
    /\ gdb_cmd' \in [fate : Fates, state : {"idle"}, n : {gdb_cmd.n + 1}]
    /\ proc' = "sleeping"
    /\ sigint' = IF sigint = "pending" THEN "pending" ELSE "none"
    /\ result' = "pending"
    /\ pc' = "spawned"
    /\ OnlyTimeout

TimeoutNext ==
    \/ untimed_execute
    \/ gdb_execute_begin
    \/ gdb_execute_end
    \/ poll
    \/ proc_kill
    \/ return_ans
    \/ delay_signal_kill
    \/ delay_signal_exit
    \/ interrupt
    \/ call_again

TimeoutSpec == TimeoutInit /\ [][TimeoutNext]_vars

(***************************************************************************)
(* Properties of gdb_execute_timeout.                                      *)
(***************************************************************************)
\* C20 (as stated): a call ends as exactly one of Success, Timeout and
\* DebuggerError; as Timeout only when the interrupt was delivered while
\* the command was in flight; a command that returned is reported as
\* Success and one that failed as DebuggerError; no interrupt of the call's
\* timer is delivered after the call.
C20_Classified ==
    /\ sigint # "stray"
    /\ pc = "returned" =>
         /\ result \in {"Success", "Timeout", "DebuggerError"}
         /\ result = "Timeout" => sigint = "in_flight"
         /\ gdb_cmd.state = "returned" => result = "Success"
         /\ gdb_cmd.state = "failed" => result = "DebuggerError"

\* C21: when Tracer.step finds the inferior not live, the main loop ends
\* without another record, and the last record of the trace log, if there
\* is one, is "<tid> > None" for the thread the last step drove.
C21_LastRecord ==
    [][ (pc = "step" /\ ~gdb_live) =>
          /\ pc' = "done"
          /\ log' = log
          /\ log # None =>
               log = ThreadPos(tracer.threads[tracer.last_thread_info].num,
                               Middle, None) ]_vars

\* the run has ended after two threads were tracked and records written
C21_Witness ==
    /\ pc = "done"
    /\ log # None
    /\ Len(tracer.threads) = 2
    /\ steps > 1

\* the window thread tid had when this step began: a thread that is
\* tracked in this step begins with an empty one (tracer.py:135)
WindowBefore(tid) ==
    IF tid \in DOMAIN tracer.pos_count THEN tracer.pos_count[tid] ELSE PosCount

\* C22: the command try_step chooses is `continue` when no other tracked
\* thread is valid, and the thread's window is then left as it was;
\* otherwise `finish` at the begin of a blacklisted line; otherwise `step`
\* when the window is no loop; otherwise `step` or `finish`, and `finish`
\* only when add_blacklist has recorded the lines of the thread's function.
C22_CommandPrecedence ==
    [][ (pc = "step" /\ pc' = "try_step") =>
          LET i == local'.thread_index
              info == tracer'.threads[i]
              tid == info.num
              only == \A k \in DOMAIN tracer'.threads :
                         k # i => tracer'.threads[k].num \notin valid
              listed == /\ at_line_begin(info.position)
                        /\ << info.position.file_line.filename,
                              info.position.file_line.line >> \in tracer.blacklist
              loop == /\ WindowBefore(tid).num >= LoopSamples
                      /\ ~entropy_exceeds(WindowBefore(tid))
          IN CASE only ->
                    /\ local'.cmd = "continue"
                    /\ tracer'.pos_count[tid] = WindowBefore(tid)
                    /\ tracer'.blacklist = tracer.blacklist
               [] ~only /\ listed ->
                    /\ local'.cmd = "finish"
                    /\ tracer'.pos_count[tid] = WindowBefore(tid)
                    /\ tracer'.blacklist = tracer.blacklist
               [] ~only /\ ~listed /\ ~loop ->
                    /\ local'.cmd = "step"
                    /\ tracer'.blacklist = tracer.blacklist
               [] ~only /\ ~listed /\ loop ->
                    /\ tracer'.pos_count[tid] = PosCount
                    /\ \/ /\ local'.cmd = "step"
                          /\ tracer'.blacklist = tracer.blacklist
                       \/ /\ local'.cmd = "finish"
                          /\ add_blacklist_ret(info)
                          /\ tracer'.blacklist =
                               tracer.blacklist \cup add_blacklist_lines(info) ]_vars

\* try_step has chosen `finish` for a thread at the begin of a blacklisted
\* line although its window is short, after a loop had been declared
C22_Witness ==
    /\ pc = "try_step"
    /\ local.cmd = "finish"
    /\ hist.black # {}
    /\ tracer.pos_count[commanded.num].num > 0

\* this step brings try_step to the first command of a move out
\* (tracer.py:274-291): the thread was found valid and not at a line begin
EntersMoveOut ==
    /\ pc' = "move_out"
    /\ pc = "try_step" \/ (pc = "move_out" /\ local.cmds = << >>)

\* the level thread_position found the line of pos at: a pc inside the
\* line is the newest frame's (level 0), a pc outside the table with a
\* line is a frame's further up
LevelOf(pos) == IF pos.pc = outside_pc THEN MaxDepth - 1 ELSE 0

\* this step is a command of the move out being answered
MoveOutStep == pc = "move_out" /\ hist' # hist

\* C23 (as stated): entering the move out writes one Middle record for the
\* thread and chooses `step` when the position has no line, `next` when
\* the line is the newest frame's, and otherwise `finish` once for each
\* level; a Timeout, or the thread being gone when the next command is due,
\* makes try_step return false.
C23_MoveOutCommands ==
    [][ /\ EntersMoveOut =>
            LET i == local'.thread_index
                info == tracer'.threads[i]
                fl == info.position.file_line
                cmds == << local'.cmd >> \o local'.cmds
            IN /\ log' = ThreadPos(info.num, Middle,
                                   IF fl = None THEN None ELSE relative_to(fl))
               /\ tracer'.pos_count[info.num].num =
                    tracer.pos_count[info.num].num + 1
               /\ cmds = IF fl = None THEN << "step" >>
                         ELSE IF LevelOf(info.position) = 0 THEN << "next" >>
                         ELSE [k \in 1..LevelOf(info.position) |-> "finish"]
        /\ (MoveOutStep /\ (hist'.r = "Timeout" \/ commanded.num \notin valid')
              /\ pc' # "error") =>
            /\ pc' = "step"
            /\ tracer'.threads[local.thread_index].sched_weight =
                 times_DropSchedWeight(commanded.sched_weight) ]_vars

(***************************************************************************)
(* Properties of the Replayer's clone handling.                            *)
(***************************************************************************)
\* every ThreadInfo is kept at the index that is its thread's number
TidIsIndex(th) == \A i \in 1..Len(th) : th[i].current.tid = i

\* C24: when run_gdb_cmd returns Clone it has given one `stepi`, appended
\* one ThreadInfo whose tid is its index, and the thread that was selected
\* before the command is selected again; at all times threads[i].tid = i.
C24_CloneHandling ==
    [][ /\ TidIsIndex(threads) /\ TidIsIndex(threads')
        /\ (AtCommand /\ last'.r = "Clone") =>
             /\ last'.stepi = 1
             /\ Len(threads') = Len(threads) + 1
             /\ SubSeq(threads', 1, Len(threads)) =
                  [i \in 1..Len(threads) |->
                     IF i = cur_info THEN threads'[i] ELSE threads[i]]
             /\ threads'[Len(threads')].current.tid = Len(threads')
             /\ selected' = selected
             /\ selected' \in valid' ]_vars

\* run_gdb_cmd has returned Clone while the second record was replayed
C24_Witness ==
    /\ last.r = "Clone"
    /\ Len(threads) = 2
    /\ nread = 2
    /\ selected \in valid

(***************************************************************************)
(* tracer.py: PosCount with its list `log` and the forgetting of the       *)
(* oldest string (tracer.py:38-67), on the calls it can be given.  Below   *)
(* RecentCnt strings it is the window of the Tracer above, which leaves    *)
(* the list out.                                                           *)
(*                                                                         *)
(* The calls are an input: the first MaxFree strings are any of two, the   *)
(* later ones are the first string; clear_counter is called after as many  *)
(* strings as ClearTimes says.                                             *)
(***************************************************************************)
MaxAdds == 1004    \* calls of add_new
MaxFree == 3       \* calls of add_new whose string is free

\* tracer.py:41-44  PosCount.__init__
PosCount_init == [data |-> EmptyBag, log |-> << >>, num |-> 0]

\* tracer.py:54-60  PosCount._remove; a string that is not in data is a
\* KeyError, which does not happen for a string of the window
PosCount_remove(w, loc) ==
    IF loc \notin DOMAIN w.data
    THEN w
    ELSE [w EXCEPT !.data = IF w.data[loc] = 1
                            THEN [k \in DOMAIN w.data \ {loc} |-> w.data[k]]
                            ELSE [w.data EXCEPT ![loc] = @ - 1],
                   !.num = @ - 1]

\* self.log[-n], Python's index from the end
from_end(s, n) == s[Len(s) - n + 1]

\* tracer.py:46-52, changed: the string forgotten is the oldest of the list
PosCount_add_new_oldest_ever(w, loc) ==
    LET w1 == [data |-> w.data (+) SetToBag({loc}),
               log |-> Append(w.log, loc),
               num |-> w.num + 1]
    IN IF w1.num > RecentCnt
       THEN PosCount_remove(w1, w1.log[1])
       ELSE w1

\* tracer.py:46-52  PosCount.add_new
PosCount_add_new(w, loc) ==
    LET w1 == [data |-> w.data (+) SetToBag({loc}),
               log |-> Append(w.log, loc),
               num |-> w.num + 1]
    IN IF w1.num > RecentCnt
       THEN PosCount_remove(w1, from_end(w1.log, w1.num))
       ELSE w1

\* tracer.py:65-67  PosCount.clear_counter: the list is kept
PosCount_clear_counter(w) == [w EXCEPT !.data = EmptyBag, !.num = 0]

\* the numbers of strings after which clear_counter is called
ClearTimes == {1, MaxFree - 1, RecentCnt, RecentCnt + 1}

\* local is the PosCount; hist keeps the strings add_new was given and the
\* number of them at the latest clear_counter
PosCountInit ==
    /\ local = PosCount_init
    /\ hist = [added |-> << >>, cleared_at |-> 0]
    /\ pc = "PosCount"
    /\ tracer = None /\ log = None /\ reported = {} /\ steps = 0
    /\ valid = {1} /\ selected = 1
    /\ ReplayerOff
    /\ TimeoutOff

OnlyPosCount ==
    UNCHANGED << replayer_vars, timeout_vars, valid, selected, pc, tracer,
                 log, reported, steps >>

\* tracer.py:46-52  a call of add_new
add_new_call ==
    /\ pc = "PosCount"
    /\ Len(hist.added) < MaxAdds
    /\ \E loc \in IF Len(hist.added) < MaxFree
                  THEN WindowKeys(2) ELSE WindowKeys(1) :
         /\ local' = PosCount_add_new(local, loc)
         /\ hist' = [hist EXCEPT !.added = Append(@, loc)]
    /\ OnlyPosCount

\* tracer.py:65-67  a call of clear_counter
clear_counter_call ==
    /\ pc = "PosCount"
    /\ Len(hist.added) \in ClearTimes
    /\ hist.cleared_at # Len(hist.added)
    /\ local' = PosCount_clear_counter(local)
    /\ hist' = [hist EXCEPT !.cleared_at = Len(hist.added)]
    /\ OnlyPosCount

PosCountNext ==
    \/ add_new_call
    \/ clear_counter_call

PosCountSpec == PosCountInit /\ [][PosCountNext]_vars

(***************************************************************************)
(* Properties of PosCount.                                                 *)
(***************************************************************************)
\* the number of strings the window should hold
WindowSize ==
    IF Len(hist.added) - hist.cleared_at > RecentCnt
    THEN RecentCnt
    ELSE Len(hist.added) - hist.cleared_at

\* the bag of the last n strings of s
LastBag(s, n) ==
    LET last_n == { i \in DOMAIN s : i > Len(s) - n }
    IN [k \in { s[i] : i \in last_n } |->
          Cardinality({ i \in last_n : s[i] = k })]

\* C25: num is at most 1000 and is the sum of the counts of data, every
\* count is at least 1, and data is the bag of the last num strings added:
\* the strings added since the later of the last clear_counter and the
\* 1000-th latest add_new.
C25_WindowInvariant ==
    pc = "PosCount" =>
        /\ local.num <= RecentCnt
        /\ local.num = BagCardinality(local.data)
        /\ \A k \in DOMAIN local.data : local.data[k] >= 1
        /\ local.num = WindowSize
        /\ local.data = LastBag(hist.added, local.num)

\* the window is full after a clear_counter and has forgotten a string
\* that was added after it and occurs nowhere else in the window
C25_Witness ==
    /\ pc = "PosCount"
    /\ hist.cleared_at > 0
    /\ Len(hist.added) - hist.cleared_at > RecentCnt
    /\ local.num = RecentCnt
    /\ hist.added[hist.cleared_at + 1] \notin DOMAIN local.data

\* the weights random_thread is given in this state, for the places `where`
\* of the threads handle_new_threads adds
DrainedWeights(where) ==
    LET at == [t \in DOMAIN where |->
                 Position(where[t].file_line, where[t].pc)]
        tr1 == handle_new_threads(tracer, valid, at)
    IN [k \in DOMAIN tr1.threads |-> tr1.threads[k].sched_weight]

\* C26 (as stated): when Tracer.step reaches random_thread (the inferior
\* is live and handle_new_threads has run) some tracked thread has a
\* positive scheduling weight.
C26_SomeWeightPositive ==
    (pc = "step" /\ gdb_live) =>
        \A where \in [valid \ tracked_valid(tracer, valid) -> TracerStops] :
            \E k \in DOMAIN DrainedWeights(where) :
                positive(DrainedWeights(where)[k])

====
